---- MODULE Spec2Model ----
(***************************************************************************)
(* Kiki-ai: the chaos route (executeChaos, POST /chaos/run), the status    *)
(* route (GET /cluster/status) and the kubectl helpers of lib/k8s-client.  *)
(*                                                                         *)
(* Strings are sequences of fragments: a template literal `a ${x} b` is    *)
(* <<"a ", x, " b">>; a string is empty iff every fragment is "".          *)
(* A CLI subprocess is one atomic step: it either exits 0 with its effect  *)
(* on the cluster, or fails without effect.                                *)
(***************************************************************************)
EXTENDS Integers, Sequences, FiniteSets, TLC

VARIABLES pods, nodes, unschedulable, posixShell, now, timers, runs, call,
          alive, ui

vars == <<pods, nodes, unschedulable, posixShell, now, timers, runs, call,
          alive, ui>>

clusterVars == <<pods, nodes, unschedulable, posixShell>>

----------------------------------------------------------------------------
(* Bounds of the model *)

MaxRuns == 2

TickMs == 15000

MaxTimeMs == 30000

MaxServices == 2

Calls == {"r1"}

\* the invocations that can be in flight in the server at once
Slots == {"r1", "r2"}

PodOrder == <<"123", "nginx-a", "nginx-b">>

PodNames == {PodOrder[i] : i \in 1..Len(PodOrder)}

NodeNames == {"node-1", "node-2"}

NodeLists == {<<>>, <<"node-1">>, <<"node-2", "node-1">>}

NULL == "<null>"

----------------------------------------------------------------------------
(* The scenario tables of the chaos route *)

PodScenarios == {"pod-delete", "cpu-spike", "memory-leak", "network-delay"}

Scenarios == PodScenarios \cup {"disk-pressure"}

\* property names every plain object inherits from Object.prototype
ObjectPrototypeKeys == {"constructor"}

ScenarioInputs == Scenarios \cup {"bogus", "constructor", ""}

UncordonDelayMs == 30000

\* the delay of the uncordon timer of cordonNode
CordonNodeDelayMs == 60000

\* the scenario cards of the dashboard: id and the points shown on the card
scenarios ==
  << [id |-> "pod-delete", score |-> 100],
     [id |-> "cpu-spike", score |-> 150],
     [id |-> "memory-leak", score |-> 150],
     [id |-> "network-delay", score |-> 200],
     [id |-> "disk-pressure", score |-> 200] >>

CardIds == {scenarios[i].id : i \in 1..Len(scenarios)}

\* the points shown on the card of scenario sid
CardScore(sid) ==
  scenarios[CHOOSE i \in 1..Len(scenarios) : scenarios[i].id = sid].score

\* README, "Chaos Scenarios": the points documented for each scenario
ReadmePoints ==
  [sid \in Scenarios |->
     CASE sid = "pod-delete" -> 100      \* Pod Deletion (+100 pts)
       [] sid = "cpu-spike" -> 150       \* CPU Overload (+150 pts)
       [] sid = "memory-leak" -> 150     \* Memory Leak (OOM) (+150 pts)
       [] sid = "network-delay" -> 200   \* Network Partition (+200 pts)
       [] sid = "disk-pressure" -> 200]  \* Disk Pressure (+200 pts)

----------------------------------------------------------------------------
(* Strings *)

NonEmpty(s) == \E i \in 1..Len(s) : s[i] # ""

Contains(s, sub) ==
  \E i \in 0..(Len(s) - Len(sub)) : \A j \in 1..Len(sub) : s[i + j] = sub[j]

\* error.message of a rejected execAsync
ExecError(cmd) == <<"Command failed: kubectl ", cmd>>

\* error.message of the TypeError of a property read on null
TypeErrorNull == <<"Cannot read properties of null">>

----------------------------------------------------------------------------
(* lib/k8s-client.ts *)

\* Error thrown by kubectl(): `kubectl failed: ${error.message}`
KubectlError(cmd) == <<"kubectl failed: ">> \o ExecError(cmd)

\* Error thrown by deletePod(): `Failed to delete pod: ${error.message}`
DeletePodError == <<"Failed to delete pod: ">> \o ExecError("delete pod")

\* variant: a pod an invocation has selected is reserved for it and hidden
\* from the listings of the others
PodListStdout_Reserved ==
  [quoted |-> ~posixShell,
   names |-> SelectSeq(PodOrder,
               LAMBDA p : p \in pods /\ \A d \in DOMAIN call :
                            ~(call[d].pc \in {"get-pod", "delete-pod"}
                              /\ call[d].podName = p))]

\* stdout of `kubectl get pods -l app=nginx -o jsonpath='{.items[*].metadata.name}'`:
\* the names separated by blanks; a shell that is not POSIX passes the
\* single quotes on to kubectl, which prints them
PodListStdout ==
  [quoted |-> ~posixShell, names |-> SelectSeq(PodOrder, LAMBDA p : p \in pods)]

\* JSON.parse(stdout) succeeds on a lone JSON literal
JsonLiterals == {"123"}

JsonParses(out) ==
  /\ ~out.quoted
  /\ Len(out.names) = 1
  /\ out.names[1] \in JsonLiterals

\* kubectl(): JSON.parse(stdout), and stdout.trim() when that throws
KubectlParse(out) ==
  IF JsonParses(out)
  THEN [type |-> "number", quoted |-> FALSE, names |-> out.names]
  ELSE [type |-> "string", quoted |-> out.quoted, names |-> out.names]

\* !result || result === "''"
NoPodOutput(result) ==
  result.type = "string" /\ result.names = <<>>

\* getRandomPod(): the values it can return for one CLI outcome
GetRandomPod(ok, stdout) ==
  IF ~ok THEN {NULL}
  ELSE LET result == KubectlParse(stdout) IN
    IF NoPodOutput(result) THEN {NULL}
    ELSE IF result.type # "string" THEN {NULL}
    ELSE {result.names[i] : i \in 1..Len(result.names)}

----------------------------------------------------------------------------
(* State of one invocation *)

NoResult == [success |-> FALSE, message |-> <<>>, details |-> <<>>]

NoResponse == [status |-> 0]

NoHealth ==
  [healthy |-> FALSE, pods |-> 0, totalPods |-> 0, nodes |-> 0,
   totalNodes |-> 0, services |-> 0]

NoSnapshot ==
  [status |-> 0, healthy |-> FALSE, pods |-> 0, totalPods |-> 0, nodes |-> 0,
   totalNodes |-> 0, services |-> 0, simulated |-> FALSE, error |-> <<>>]

IdleCall ==
  [kind |-> "idle", run |-> 0, pc |-> "idle", site |-> "none",
   scenarioId |-> "", k8sAvailable |-> FALSE, podName |-> NULL,
   nodeName |-> NULL, result |-> NoResult, returned |-> FALSE,
   threw |-> FALSE, podsSeen |-> {}, cmds |-> <<>>,
   isReal |-> FALSE, response |-> NoResponse, health |-> NoHealth,
   snapshot |-> NoSnapshot]

\* the state of the Home component of the dashboard: its useState values,
\* the position of runChaosScenario and the data of the response it reads
\* the state of the dashboard component after its first render; responses
\* is the history of the finished runs
\* the clusterStatus the dashboard shows before any poll has answered and
\* after a poll that failed
FallbackStatus ==
  [NoSnapshot EXCEPT !.healthy = TRUE, !.simulated = TRUE]

NoDashboard ==
  [selectedScenario |-> NULL, isRunning |-> FALSE, score |-> 0, pc |-> "idle",
   run |-> 0, data |-> NoResponse, responses |-> <<>>,
   clusterStatus |-> FallbackStatus, shown |-> <<>>]

\* one entry of the record of the subprocesses and requests an invocation
\* has awaited: out is "ok" or "error" for a command whose stdout is not
\* read, and else "error" or the kind of stdout
Cmd(c, out, arg) == [cmd |-> c, out |-> out, arg |-> arg]

Exit(ok) == IF ok THEN "ok" ELSE "error"

Set(c, r) == call' = [call EXCEPT ![c] = r]

Log(c, entry) == Append(call[c].cmds, entry)

Init ==
  /\ pods \in SUBSET PodNames
  /\ nodes \in NodeLists
  /\ unschedulable = {}
  /\ posixShell \in BOOLEAN
  /\ now = 0
  /\ timers = {}
  /\ runs = 0
  /\ call = [c \in Slots |-> IdleCall]
  /\ alive = TRUE
  /\ ui = NoDashboard

----------------------------------------------------------------------------
(* executeChaos: the results it builds *)

SimulatedResult(sid) ==
  [success |-> FALSE,
   message |-> <<"Simulated: ", sid,
                 ". Connect to a Kubernetes cluster to run real chaos experiments.">>,
   details |-> <<"Kubernetes cluster not accessible">>]

NoPodsResult(sid) ==
  [success |-> FALSE,
   message |-> IF sid = "pod-delete"
               THEN <<"No nginx pods found. Deploy with: kubectl create deployment nginx --image=nginx --replicas=3">>
               ELSE <<"No nginx pods found">>,
   details |-> <<"No target pods available">>]

DeletedMessage(sid) ==
  CASE sid = "pod-delete" -> "Deleted pod: "
    [] sid = "cpu-spike" -> "Simulated CPU overload crash for pod: "
    [] sid = "memory-leak" -> "Simulated OOM (Out of Memory) kill for pod: "
    [] OTHER -> "Simulated network partition by removing pod: "

DeletedDetails(sid) ==
  CASE sid = "pod-delete" -> " has been terminated."
    [] sid = "cpu-spike" -> " was terminated (simulating a CPU-induced crash)."
    [] sid = "memory-leak" -> " was terminated (simulating an OOM kill)."
    [] OTHER -> " was removed to simulate network connectivity loss."

DeletedResult(sid, podName) ==
  [success |-> TRUE,
   message |-> <<DeletedMessage(sid), podName>>,
   details |-> <<"Pod ", podName, DeletedDetails(sid)>>]

NoNodesResult ==
  [success |-> FALSE, message |-> <<"No nodes found">>,
   details |-> <<"Cluster has no nodes">>]

CordonedResult(nodeName) ==
  [success |-> TRUE,
   message |-> <<"Cordoned node: ", nodeName>>,
   details |-> <<"Node ", nodeName,
                 " has been cordoned (marked as unschedulable). The node will be automatically uncordoned in 30 seconds.">>]

CordonFailedResult(errorMessage) ==
  [success |-> FALSE, message |-> <<"Failed to cordon node">>,
   details |-> errorMessage]

UnknownResult(sid) ==
  [success |-> FALSE, message |-> <<"Unknown scenario: ", sid>>,
   details |-> <<"Scenario not implemented">>]

CaughtResult(errorMessage) ==
  [success |-> FALSE,
   message |-> <<"Chaos execution encountered an issue: ">> \o errorMessage,
   details |-> <<"Check kubectl access and cluster connectivity">>]

----------------------------------------------------------------------------
(* How a step of an async function ends: it returns a value or throws *)

Return(v) == [type |-> "return", value |-> v, error |-> <<>>]

Throw(e) == [type |-> "throw", value |-> NoResult, error |-> e]

\* variant: the disk-pressure case has no try block of its own
InnerCatch_Missing(o) == o

\* catch (error) of the disk-pressure case
InnerCatch(o) ==
  IF o.type = "throw" THEN Return(CordonFailedResult(o.error)) ELSE o

\* variant: the switch is not wrapped in a try block
OuterCatch_Missing(o) == o

\* catch (error) around the switch of executeChaos
OuterCatch(o) ==
  IF o.type = "throw" THEN Return(CaughtResult(o.error)) ELSE o

----------------------------------------------------------------------------
(* POST /chaos/run: tables and responses *)

\* scenarioPrompts[scenarioId] is truthy: an own key of the table, or a
\* property the object literal inherits
HasPrompt(sid) == sid \in Scenarios \cup ObjectPrototypeKeys

\* !scenarioId || !scenarioPrompts[scenarioId]
InvalidScenario(sid) == sid = "" \/ ~HasPrompt(sid)

\* variant: the table of the earlier route
scoreMap_Old ==
  [sid \in Scenarios |->
     CASE sid = "pod-delete" -> 100
       [] sid = "cpu-spike" -> 100
       [] sid = "memory-leak" -> 150
       [] sid = "network-delay" -> 150
       [] sid = "disk-pressure" -> 200]

scoreMap ==
  [sid \in Scenarios |->
     CASE sid = "pod-delete" -> 100
       [] sid = "cpu-spike" -> 150
       [] sid = "memory-leak" -> 150
       [] sid = "network-delay" -> 200
       [] sid = "disk-pressure" -> 200]

\* scoreMap[scenarioId] || 100 as serialised in the JSON body: <<n>>, or
\* <<>> when the looked-up value is an inherited function, which
\* JSON.stringify leaves out
ScoreChange(sid) ==
  IF sid \in Scenarios
  THEN <<IF scoreMap[sid] = 0 THEN 100 ELSE scoreMap[sid]>>
  ELSE IF sid \in ObjectPrototypeKeys THEN <<>> ELSE <<100>>

BadRequest ==
  [status |-> 400, error |-> <<"Invalid scenario ID">>, details |-> <<>>,
   analysis |-> <<>>, scoreChange |-> <<>>, success |-> FALSE,
   executionResult |-> <<>>, executionDetails |-> <<>>, realChaos |-> FALSE]

ServerError(errorMessage) ==
  [status |-> 500, error |-> <<"Failed to execute chaos scenario">>,
   details |-> errorMessage,
   analysis |-> <<"An error occurred. Please check your configuration and try again.">>,
   scoreChange |-> <<>>, success |-> FALSE,
   executionResult |-> <<>>, executionDetails |-> <<>>, realChaos |-> FALSE]

\* variant: the response reports success whatever the action did
ChaosResponse_AlwaysSuccess(r, analysis) ==
  [status |-> 200, error |-> <<>>, details |-> <<>>,
   analysis |-> analysis,
   scoreChange |-> ScoreChange(r.scenarioId),
   success |-> TRUE,
   executionResult |-> r.result.message,
   executionDetails |-> r.result.details,
   realChaos |-> r.isReal]

\* variant: points are granted only when the action succeeded
ChaosResponse_ScoreOnSuccess(r, analysis) ==
  [status |-> 200, error |-> <<>>, details |-> <<>>,
   analysis |-> analysis,
   scoreChange |-> IF r.result.success THEN ScoreChange(r.scenarioId) ELSE <<0>>,
   success |-> r.result.success,
   executionResult |-> r.result.message,
   executionDetails |-> r.result.details,
   realChaos |-> r.isReal]

ChaosResponse(r, analysis) ==
  [status |-> 200, error |-> <<>>, details |-> <<>>,
   analysis |-> analysis,
   scoreChange |-> ScoreChange(r.scenarioId),
   success |-> r.result.success,
   executionResult |-> r.result.message,
   executionDetails |-> r.result.details,
   realChaos |-> r.isReal]

\* catch (error) of POST
PostCatch(r, errorMessage) ==
  [r EXCEPT !.response = ServerError(errorMessage), !.pc = "done"]

----------------------------------------------------------------------------
(* GET /cluster/status *)

\* the simulated data of the route
Placeholder(errorMessage) ==
  [status |-> 200, healthy |-> TRUE, pods |-> 3, totalPods |-> 3, nodes |-> 1,
   totalNodes |-> 1, services |-> 2, simulated |-> TRUE,
   error |-> errorMessage]

\* the response built from the ClusterHealth of getClusterHealth
LiveSnapshot(health) ==
  [status |-> 200, healthy |-> health.healthy, pods |-> health.pods,
   totalPods |-> health.totalPods, nodes |-> health.nodes,
   totalNodes |-> health.totalNodes, services |-> health.services,
   simulated |-> FALSE, error |-> <<>>]

\* variant: the catch block answers with an error status
StatusCatch_Error(r, errorMessage) ==
  [r EXCEPT !.snapshot = [NoSnapshot EXCEPT !.status = 500,
                                            !.error = errorMessage],
            !.pc = "done"]

\* catch (error) of GET
StatusCatch(r, errorMessage) ==
  [r EXCEPT !.snapshot = Placeholder(errorMessage), !.pc = "done"]

\* const k8sAvailable = await isKubernetesAvailable() of GET
AfterProbeStatus(r, available) ==
  LET r1 == [r EXCEPT !.k8sAvailable = available] IN
  IF ~available
  THEN [r1 EXCEPT !.snapshot = Placeholder(<<"Kubernetes cluster not accessible">>),
                  !.pc = "done"]
  ELSE [r1 EXCEPT !.pc = "health-pods"]

\* variant: a cluster without pods is not reported healthy
Healthy_NeedsPods(runningPods, totalPods) ==
  totalPods > 0 /\ runningPods = totalPods

\* healthy: totalPods > 0 ? runningPods === totalPods : true
Healthy(runningPods, totalPods) ==
  IF totalPods > 0 THEN runningPods = totalPods ELSE TRUE

----------------------------------------------------------------------------
(* executeChaos *)

\* the promise of executeChaos settles with outcome o; in POST the next
\* statement starts the second availability probe
Settle(r, o) ==
  IF r.kind = "post"
  THEN IF o.type = "throw"
       THEN PostCatch(r, o.error)
       ELSE [r EXCEPT !.result = o.value, !.returned = TRUE,
                      !.pc = "version", !.site = "isReal"]
  ELSE IF o.type = "throw"
       THEN [r EXCEPT !.threw = TRUE, !.pc = "done"]
       ELSE [r EXCEPT !.result = o.value, !.returned = TRUE, !.pc = "done"]

\* variant: the result of the probe is not tested
AfterProbeExec_NoFallback(r, available) ==
  LET r1 == [r EXCEPT !.k8sAvailable = available] IN
  IF r.scenarioId \in PodScenarios THEN [r1 EXCEPT !.pc = "get-pods"]
  ELSE IF r.scenarioId = "disk-pressure" THEN [r1 EXCEPT !.pc = "get-nodes"]
  ELSE Settle(r1, OuterCatch(Return(UnknownResult(r.scenarioId))))

\* const k8sAvailable = await isKubernetesAvailable(), then the switch up
\* to its first await
AfterProbeExec(r, available) ==
  LET r1 == [r EXCEPT !.k8sAvailable = available] IN
  IF ~available THEN Settle(r1, Return(SimulatedResult(r.scenarioId)))
  ELSE IF r.scenarioId \in PodScenarios THEN [r1 EXCEPT !.pc = "get-pods"]
  ELSE IF r.scenarioId = "disk-pressure" THEN [r1 EXCEPT !.pc = "get-nodes"]
  ELSE Settle(r1, OuterCatch(Return(UnknownResult(r.scenarioId))))

\* const isReal = await isKubernetesAvailable(), then the LLM request starts
AfterProbeIsReal(r, available) ==
  [r EXCEPT !.isReal = available, !.pc = "llm"]

AfterProbe(r, available) ==
  IF r.site = "exec" THEN AfterProbeExec(r, available)
  ELSE IF r.site = "isReal" THEN AfterProbeIsReal(r, available)
  ELSE AfterProbeStatus(r, available)

\* a direct invocation of executeChaos(scenarioId)
StartExec(c) ==
  /\ alive
  /\ call[c].pc = "idle"
  /\ runs < MaxRuns
  /\ \E sid \in ScenarioInputs :
       Set(c, [IdleCall EXCEPT !.kind = "exec", !.run = runs + 1,
                               !.scenarioId = sid, !.pc = "version",
                               !.site = "exec"])
  /\ runs' = runs + 1
  /\ UNCHANGED <<clusterVars, now, timers, alive, ui>>

\* variant: the cluster-info query is run whatever the first query did
ProbeVersion_Continue(c) ==
  /\ alive
  /\ call[c].pc = "version"
  /\ \E ok \in BOOLEAN :
       Set(c, [call[c] EXCEPT !.cmds = Log(c, Cmd("version", Exit(ok), "")),
                              !.pc = "cluster-info"])
  /\ UNCHANGED <<clusterVars, now, timers, runs, alive, ui>>

\* isKubernetesAvailable: `kubectl version --client --output=json` exits
ProbeVersion(c) ==
  /\ alive
  /\ call[c].pc = "version"
  /\ \E ok \in BOOLEAN :
       LET r == [call[c] EXCEPT !.cmds = Log(c, Cmd("version", Exit(ok), ""))] IN
       Set(c, IF ok THEN [r EXCEPT !.pc = "cluster-info"]
                    ELSE AfterProbe(r, FALSE))
  /\ UNCHANGED <<clusterVars, now, timers, runs, alive, ui>>

\* isKubernetesAvailable: `kubectl cluster-info` exits
ProbeClusterInfo(c) ==
  /\ alive
  /\ call[c].pc = "cluster-info"
  /\ \E ok \in BOOLEAN :
       LET r == [call[c] EXCEPT !.cmds = Log(c, Cmd("cluster-info", Exit(ok), ""))] IN
       Set(c, AfterProbe(r, ok))
  /\ UNCHANGED <<clusterVars, now, timers, runs, alive, ui>>

\* variant: the pod cases do not test podName before deleting
AfterGetRandomPod_NoCheck(r, podName) ==
  [r EXCEPT !.podName = podName, !.pc = "delete-pod"]

\* what the pod cases do with the value of getRandomPod('app=nginx')
AfterGetRandomPod(r, podName) ==
  LET r1 == [r EXCEPT !.podName = podName] IN
  IF podName = NULL
  THEN Settle(r1, OuterCatch(Return(NoPodsResult(r.scenarioId))))
  ELSE IF r.scenarioId \in {"cpu-spike", "memory-leak"}
       THEN [r1 EXCEPT !.pc = "get-pod"]
       ELSE [r1 EXCEPT !.pc = "delete-pod"]

\* getRandomPod: `kubectl get pods -l app=nginx ...` exits
GetPods(c) ==
  /\ alive
  /\ call[c].pc = "get-pods"
  /\ \E ok \in BOOLEAN :
       \E podName \in GetRandomPod(ok, PodListStdout) :
         LET r == [call[c] EXCEPT !.cmds = Log(c, Cmd("get pods", Exit(ok), "")),
                                  !.podsSeen = pods] IN
         Set(c, AfterGetRandomPod(r, podName))
  /\ UNCHANGED <<clusterVars, now, timers, runs, alive, ui>>

\* stdout kinds of a `-o json` query that exits 0: the JSON object asked
\* for, text that is not JSON, or the JSON literal null
JsonOutputs == {"object", "text", "null"}

\* variant: a failed read of the pod is swallowed and the pod is deleted
AfterGetPod_Swallow(r, out) == [r EXCEPT !.pc = "delete-pod"]

\* const podData = await kubectl(`get pod ${podName} -o json`) and the
\* property reads on podData
AfterGetPod(r, out) ==
  IF out = "error"
  THEN Settle(r, OuterCatch(Throw(KubectlError("get pod"))))
  ELSE IF out = "null"
       THEN Settle(r, OuterCatch(Throw(TypeErrorNull)))
       ELSE [r EXCEPT !.pc = "delete-pod"]

\* cpu-spike, memory-leak: `kubectl get pod <podName> -o json` exits
GetPod(c) ==
  /\ alive
  /\ call[c].pc = "get-pod"
  /\ \E out \in JsonOutputs \cup {"error"} :
       /\ out # "error" => call[c].podName \in pods
       /\ LET r == [call[c] EXCEPT
                      !.cmds = Log(c, Cmd("get pod", out, call[c].podName))] IN
          Set(c, AfterGetPod(r, out))
  /\ UNCHANGED <<clusterVars, now, timers, runs, alive, ui>>

\* await deletePod(podName) and the return that follows it
AfterDeletePod(r, ok) ==
  IF ok
  THEN Settle(r, OuterCatch(Return(DeletedResult(r.scenarioId, r.podName))))
  ELSE Settle(r, OuterCatch(Throw(DeletePodError)))

\* deletePod: `kubectl delete pod <podName> -n default` exits
DeletePod(c) ==
  /\ alive
  /\ call[c].pc = "delete-pod"
  /\ \E ok \in BOOLEAN :
       /\ ok => call[c].podName \in pods
       /\ pods' = IF ok THEN pods \ {call[c].podName} ELSE pods
       /\ LET r == [call[c] EXCEPT
                      !.cmds = Log(c, Cmd("delete pod", Exit(ok), call[c].podName))] IN
          Set(c, AfterDeletePod(r, ok))
  /\ UNCHANGED <<nodes, unschedulable, posixShell, now, timers, runs, alive, ui>>

\* const nodesData = await kubectl('get nodes -o json') up to the cordon
AfterGetNodes(r, out) ==
  IF out = "error"
  THEN Settle(r, OuterCatch(InnerCatch(Throw(KubectlError("get nodes")))))
  ELSE IF out = "null"
       THEN Settle(r, OuterCatch(InnerCatch(Throw(TypeErrorNull))))
       ELSE LET items == IF out = "object" THEN nodes ELSE <<>> IN
            IF Len(items) = 0
            THEN Settle(r, OuterCatch(InnerCatch(Return(NoNodesResult))))
            ELSE [r EXCEPT !.nodeName = items[1], !.pc = "cordon"]

\* disk-pressure: `kubectl get nodes -o json` exits
GetNodes(c) ==
  /\ alive
  /\ call[c].pc = "get-nodes"
  /\ \E out \in JsonOutputs \cup {"error"} :
       LET r == [call[c] EXCEPT
                   !.cmds = Log(c, Cmd("get nodes", out, ""))] IN
       Set(c, AfterGetNodes(r, out))
  /\ UNCHANGED <<clusterVars, now, timers, runs, alive, ui>>

\* variant: the callback is scheduled without the delay
UncordonTimer_NoDelay(r) ==
  [run |-> r.run, nodeName |-> r.nodeName, setAt |-> now,
   due |-> now, state |-> "pending", firedAt |-> 0]

\* setTimeout(async () => { await kubectl(`uncordon ${nodeName}`) }, 30000)
UncordonTimer(r) ==
  [run |-> r.run, nodeName |-> r.nodeName, setAt |-> now,
   due |-> now + UncordonDelayMs, state |-> "pending", firedAt |-> 0]

\* variant: the timer is set whatever the cordon command did
ScheduledTimers_Always(r, ok) == {UncordonTimer(r)}

\* the timers a disk-pressure invocation schedules once the cordon exited
ScheduledTimers(r, ok) == IF ok THEN {UncordonTimer(r)} ELSE {}

\* variant: the invocation awaits the uncordon before it returns
AfterCordon_AwaitUncordon(r, ok) ==
  IF ok
  THEN [r EXCEPT !.pc = "await-uncordon"]
  ELSE Settle(r, OuterCatch(InnerCatch(Throw(KubectlError("cordon")))))

\* await kubectl(`cordon ${nodeName}`) and the return that follows it
AfterCordon(r, ok) ==
  IF ok
  THEN Settle(r, OuterCatch(InnerCatch(Return(CordonedResult(r.nodeName)))))
  ELSE Settle(r, OuterCatch(InnerCatch(Throw(KubectlError("cordon")))))

\* disk-pressure: `kubectl cordon <nodeName>` exits
Cordon(c) ==
  /\ alive
  /\ call[c].pc = "cordon"
  /\ \E ok \in BOOLEAN :
       /\ unschedulable' = IF ok THEN unschedulable \cup {call[c].nodeName}
                                 ELSE unschedulable
       /\ timers' = timers \cup ScheduledTimers(call[c], ok)
       /\ LET r == [call[c] EXCEPT
                      !.cmds = Log(c, Cmd("cordon", Exit(ok), call[c].nodeName))] IN
          Set(c, AfterCordon(r, ok))
  /\ UNCHANGED <<pods, nodes, posixShell, now, runs, alive, ui>>

----------------------------------------------------------------------------
(* cordonNode of lib/k8s-client *)

\* cordonNode(nodeName?) is called, with a node name or without
StartCordonNode(c) ==
  /\ alive
  /\ call[c].pc = "idle"
  /\ runs < MaxRuns
  /\ \E given \in NodeNames \cup {NULL} :
       Set(c, [IdleCall EXCEPT !.kind = "cordonNode", !.run = runs + 1,
                               !.nodeName = given,
                               !.pc = IF given = NULL THEN "first-node"
                                                      ELSE "cordon-node"])
  /\ runs' = runs + 1
  /\ UNCHANGED <<clusterVars, now, timers, alive, ui>>

\* throw new Error(`Failed to cordon node: ${error.message}`)
CordonNodeError(errorMessage) == <<"Failed to cordon node: ">> \o errorMessage

\* `kubectl get nodes -o jsonpath="{.items[0].metadata.name}"` exits; with
\* no node the index is out of range and the command fails
FirstNode(c) ==
  /\ alive
  /\ call[c].pc = "first-node"
  /\ \E ok \in BOOLEAN :
       /\ ok => nodes # <<>>
       /\ LET r == [call[c] EXCEPT
                      !.cmds = Log(c, Cmd("get first node", Exit(ok), ""))] IN
          Set(c, IF ok
                 THEN [r EXCEPT !.nodeName = nodes[1], !.pc = "cordon-node"]
                 ELSE Settle(r, Throw(CordonNodeError(
                                        KubectlError("get first node")))))
  /\ UNCHANGED <<clusterVars, now, timers, runs, alive, ui>>

\* setTimeout(async () => { await execAsync(`kubectl uncordon ${nodeName}`) }, 60000)
CordonNodeTimer(r) ==
  [run |-> r.run, nodeName |-> r.nodeName, setAt |-> now,
   due |-> now + CordonNodeDelayMs, state |-> "pending", firedAt |-> 0]

\* the string cordonNode returns, kept as the message of the result
CordonNodeResult(nodeName) ==
  [success |-> TRUE,
   message |-> <<"Cordoned node: ", nodeName, ". Will be uncordoned in 60 seconds.">>,
   details |-> <<>>]

\* await execAsync(`kubectl cordon ${nodeName}`) exits, then the timer and
\* the return, or the throw of the catch block
CordonNode(c) ==
  /\ alive
  /\ call[c].pc = "cordon-node"
  /\ \E ok \in BOOLEAN :
       /\ ok => \E i \in 1..Len(nodes) : nodes[i] = call[c].nodeName
       /\ unschedulable' = IF ok THEN unschedulable \cup {call[c].nodeName}
                                 ELSE unschedulable
       /\ timers' = IF ok THEN timers \cup {CordonNodeTimer(call[c])} ELSE timers
       /\ LET r == [call[c] EXCEPT
                      !.cmds = Log(c, Cmd("cordon", Exit(ok), call[c].nodeName))] IN
          Set(c, IF ok
                 THEN Settle(r, Return(CordonNodeResult(r.nodeName)))
                 ELSE Settle(r, Throw(CordonNodeError(ExecError("cordon")))))
  /\ UNCHANGED <<pods, nodes, posixShell, now, runs, alive, ui>>

Pending == {t \in timers : t.state = "pending"}

\* the timer callback runs: `kubectl uncordon <nodeName>` is attempted once,
\* its failure is logged and swallowed
TimerFire ==
  /\ alive
  /\ \E t \in Pending :
       /\ now >= t.due
       /\ \E ok \in BOOLEAN :
            /\ unschedulable' = IF ok THEN unschedulable \ {t.nodeName}
                                      ELSE unschedulable
            /\ timers' = (timers \ {t}) \cup
                 {[t EXCEPT !.state = IF ok THEN "uncordoned" ELSE "failed",
                            !.firedAt = now]}
  /\ UNCHANGED <<pods, nodes, posixShell, now, runs, call, alive, ui>>

Min(S) == CHOOSE x \in S : \A y \in S : x <= y

\* time passes while a timer is pending, and not beyond the moment the
\* event loop runs the earliest due callback; past MaxTimeMs the clock only
\* jumps to that moment
Tick ==
  /\ Pending # {}
  /\ \A t \in Pending : now < t.due
  /\ now' = IF now + TickMs <= MaxTimeMs
            THEN Min({now + TickMs} \cup {t.due : t \in Pending})
            ELSE Min({t.due : t \in Pending})
  /\ UNCHANGED <<clusterVars, timers, runs, call, alive, ui>>

\* the server process exits: its invocations and its pending timers go
\* with it, nothing it has done to the cluster is reverted
ProcessExit ==
  /\ alive
  /\ alive' = FALSE
  /\ timers' = {[t EXCEPT !.state = IF @ = "pending" THEN "lost" ELSE @] :
                  t \in timers}
  /\ UNCHANGED <<clusterVars, now, runs, call, ui>>

\* the caller has consumed the settled invocation
Finish(c) ==
  /\ alive
  /\ call[c].pc = "done"
  /\ ~(ui.pc = "fetching" /\ ui.run = call[c].run)
  /\ Set(c, IdleCall)
  /\ UNCHANGED <<clusterVars, now, timers, runs, alive, ui>>

----------------------------------------------------------------------------
(* POST /chaos/run *)

\* variant: the earlier route, which asks for the narration without
\* executing anything
StartPost_NoExecution(c) ==
  /\ alive
  /\ call[c].pc = "idle"
  /\ runs < MaxRuns
  /\ \E sid \in ScenarioInputs :
       LET r == [IdleCall EXCEPT !.kind = "post", !.run = runs + 1,
                                 !.scenarioId = sid] IN
       Set(c, IF InvalidScenario(sid)
              THEN [r EXCEPT !.response = BadRequest, !.pc = "done"]
              ELSE [r EXCEPT !.pc = "llm"])
  /\ runs' = runs + 1
  /\ UNCHANGED <<clusterVars, now, timers, alive, ui>>

\* const { scenarioId } = await request.json() up to the first probe
PostRequest(sid) ==
  LET r == [IdleCall EXCEPT !.kind = "post", !.run = runs + 1,
                            !.scenarioId = sid] IN
  IF InvalidScenario(sid)
  THEN [r EXCEPT !.response = BadRequest, !.pc = "done"]
  ELSE [r EXCEPT !.pc = "version", !.site = "exec"]

\* a request to POST /chaos/run arrives
StartPost(c) ==
  /\ alive
  /\ call[c].pc = "idle"
  /\ runs < MaxRuns
  /\ \E sid \in ScenarioInputs : Set(c, PostRequest(sid))
  /\ runs' = runs + 1
  /\ UNCHANGED <<clusterVars, now, timers, alive, ui>>

\* completion.choices[0]?.message?.content || 'Analysis unavailable'
Analysis(out) ==
  IF out = "content" THEN <<"analysis text">> ELSE <<"Analysis unavailable">>

\* variant: a failed request is answered like a completion without content
AfterCompletion_Fallback(r, out) ==
  [r EXCEPT !.response = ChaosResponse(r, Analysis(out)), !.pc = "done"]

\* await groq.chat.completions.create(...) settles
AfterCompletion(r, out) ==
  IF out = "error"
  THEN PostCatch(r, <<"Connection error.">>)
  ELSE [r EXCEPT !.response = ChaosResponse(r, Analysis(out)), !.pc = "done"]

Completion(c) ==
  /\ alive
  /\ call[c].pc = "llm"
  /\ \E out \in {"content", "empty", "error"} :
       LET r == [call[c] EXCEPT !.cmds = Log(c, Cmd("llm", out, ""))] IN
       Set(c, AfterCompletion(r, out))
  /\ UNCHANGED <<clusterVars, now, timers, runs, alive, ui>>

----------------------------------------------------------------------------
(* GET /cluster/status and getClusterHealth *)

StartStatus(c) ==
  /\ alive
  /\ call[c].pc = "idle"
  /\ runs < MaxRuns
  /\ Set(c, [IdleCall EXCEPT !.kind = "status", !.run = runs + 1,
                             !.pc = "version", !.site = "status"])
  /\ runs' = runs + 1
  /\ UNCHANGED <<clusterVars, now, timers, alive, ui>>

\* stdout kinds of the queries of getClusterHealth that exit 0; "malformed"
\* is a JSON object one of whose items lacks the fields the code reads
HealthOutputs == JsonOutputs \cup {"malformed"}

\* variant: totalPods counts the pods that are not in phase Running
AfterHealthPods_TotalOfOthers(r, out, running) ==
  IF out = "error" THEN StatusCatch(r, KubectlError("get pods"))
  ELSE IF out \in {"null", "malformed"} THEN StatusCatch(r, TypeErrorNull)
  ELSE LET items == IF out = "object" THEN pods ELSE {} IN
       [r EXCEPT !.health.pods = Cardinality(running \cap items),
                 !.health.totalPods = Cardinality(items \ running),
                 !.pc = "health-nodes"]

\* podsData = await kubectl('get pods -n default -o json'), the podsList
\* and the two counts; running is the set of pods in phase Running
AfterHealthPods(r, out, running) ==
  IF out = "error" THEN StatusCatch(r, KubectlError("get pods"))
  ELSE IF out \in {"null", "malformed"} THEN StatusCatch(r, TypeErrorNull)
  ELSE LET items == IF out = "object" THEN pods ELSE {} IN
       [r EXCEPT !.health.pods = Cardinality(running \cap items),
                 !.health.totalPods = Cardinality(items),
                 !.pc = "health-nodes"]

HealthPods(c) ==
  /\ alive
  /\ call[c].pc = "health-pods"
  /\ \E out \in HealthOutputs \cup {"error"} :
       \E running \in SUBSET pods :
         /\ out # "object" => running = {}
         /\ LET r == [call[c] EXCEPT
                        !.cmds = Log(c, Cmd("get pods -n default", out, running))] IN
            Set(c, AfterHealthPods(r, out, running))
  /\ UNCHANGED <<clusterVars, now, timers, runs, alive, ui>>

NodeSet == {nodes[i] : i \in 1..Len(nodes)}

\* nodesData = await kubectl('get nodes -o json') and readyNodes; ready is
\* the set of nodes whose Ready condition is True
AfterHealthNodes(r, out, ready) ==
  IF out = "error" THEN StatusCatch(r, KubectlError("get nodes"))
  ELSE IF out \in {"null", "malformed"} THEN StatusCatch(r, TypeErrorNull)
  ELSE LET items == IF out = "object" THEN NodeSet ELSE {} IN
       [r EXCEPT !.health.nodes = Cardinality(ready \cap items),
                 !.health.totalNodes = Cardinality(items),
                 !.pc = "health-services"]

\* variant: the node query of the status route also lifts the cordons
HealthNodes_Uncordon(c) ==
  /\ alive
  /\ call[c].pc = "health-nodes"
  /\ \E out \in HealthOutputs \cup {"error"} :
       \E ready \in SUBSET NodeSet :
         /\ out # "object" => ready = {}
         /\ unschedulable' = IF out = "object" THEN {} ELSE unschedulable
         /\ LET r == [call[c] EXCEPT
                        !.cmds = Log(c, Cmd("get nodes", out, ready))] IN
            Set(c, AfterHealthNodes(r, out, ready))
  /\ UNCHANGED <<pods, nodes, posixShell, now, timers, runs, alive, ui>>

HealthNodes(c) ==
  /\ alive
  /\ call[c].pc = "health-nodes"
  /\ \E out \in HealthOutputs \cup {"error"} :
       \E ready \in SUBSET NodeSet :
         /\ out # "object" => ready = {}
         /\ LET r == [call[c] EXCEPT
                        !.cmds = Log(c, Cmd("get nodes", out, ready))] IN
            Set(c, AfterHealthNodes(r, out, ready))
  /\ UNCHANGED <<clusterVars, now, timers, runs, alive, ui>>

\* servicesData = await kubectl('get services -n default -o json'), the
\* ClusterHealth returned and the response of GET
AfterHealthServices(r, out, n) ==
  IF out = "error" THEN StatusCatch(r, KubectlError("get services"))
  ELSE IF out = "null" THEN StatusCatch(r, TypeErrorNull)
  ELSE LET health == [r.health EXCEPT
                        !.services = IF out = "text" THEN 0 ELSE n,
                        !.healthy = Healthy(r.health.pods, r.health.totalPods)] IN
       [r EXCEPT !.health = health, !.snapshot = LiveSnapshot(health),
                 !.pc = "done"]

HealthServices(c) ==
  /\ alive
  /\ call[c].pc = "health-services"
  /\ \E out \in JsonOutputs \cup {"error"} :
       \E n \in 0..MaxServices :
         /\ out # "object" => n = 0
         /\ LET r == [call[c] EXCEPT
                        !.cmds = Log(c, Cmd("get services", out, ""))] IN
            Set(c, AfterHealthServices(r, out, n))
  /\ UNCHANGED <<clusterVars, now, timers, runs, alive, ui>>

----------------------------------------------------------------------------
(* The dashboard (app/page.tsx) *)

\* the select box and the cards: setSelectedScenario, refused while a run
\* is in progress
SelectScenario ==
  /\ ~ui.isRunning
  /\ \E sid \in CardIds \cup {NULL} :
       /\ sid # ui.selectedScenario
       /\ ui' = [ui EXCEPT !.selectedScenario = sid]
  /\ UNCHANGED <<clusterVars, now, timers, runs, call, alive>>

\* variant: the start button stays enabled during a run
RunChaosScenario_NotDisabled(c) ==
  /\ alive
  /\ ui.selectedScenario # NULL
  /\ call[c].pc = "idle"
  /\ runs < MaxRuns
  /\ Set(c, PostRequest(ui.selectedScenario))
  /\ runs' = runs + 1
  /\ ui' = [ui EXCEPT !.isRunning = TRUE, !.pc = "fetching", !.run = runs + 1]
  /\ UNCHANGED <<clusterVars, now, timers, alive>>

\* the start button: runChaosScenario up to its fetch of /api/chaos/run
RunChaosScenario(c) ==
  /\ alive
  /\ ui.selectedScenario # NULL
  /\ ~ui.isRunning
  /\ call[c].pc = "idle"
  /\ runs < MaxRuns
  /\ Set(c, PostRequest(ui.selectedScenario))
  /\ runs' = runs + 1
  /\ ui' = [ui EXCEPT !.isRunning = TRUE, !.pc = "fetching", !.run = runs + 1]
  /\ UNCHANGED <<clusterVars, now, timers, alive>>

\* a finished run as the history keeps it
Finished(delivered, data) ==
  [delivered |-> delivered,
   success |-> delivered /\ data.success,
   scoreChange |-> IF delivered THEN data.scoreChange ELSE <<>>]

NaN == -1

\* prev + data.scoreChange; a body without scoreChange gives NaN
AddScore(prev, scoreChange) ==
  IF scoreChange = <<>> \/ prev = NaN THEN NaN ELSE prev + scoreChange[1]

\* variant: the earlier dashboard, which adds scoreChange whatever the
\* response says and 100 when the request fails
AfterFetch_Old(u, delivered, data) ==
  [u EXCEPT !.score = IF delivered THEN AddScore(@, data.scoreChange)
                                   ELSE AddScore(@, <<100>>),
            !.isRunning = FALSE, !.pc = "idle",
            !.responses = Append(@, Finished(delivered, data))]

\* runChaosScenario after `await fetch` and `await response.json()`: the
\* catch block when either rejects, else the branch on data.success (a body
\* without the field is falsy) up to the next await or the end
AfterFetch(u, delivered, data) ==
  IF delivered /\ data.success
  THEN [u EXCEPT !.pc = "analysing", !.data = data]
  ELSE [u EXCEPT !.isRunning = FALSE, !.pc = "idle",
                 !.responses = Append(@, Finished(delivered, data))]

\* the fetch of the run settles
FetchSettles(c) ==
  /\ ui.pc = "fetching"
  /\ call[c].run = ui.run
  /\ call[c].pc = "done"
  /\ \E delivered \in BOOLEAN :
       ui' = AfterFetch(ui, delivered, call[c].response)
  /\ Set(c, IdleCall)
  /\ UNCHANGED <<clusterVars, now, timers, runs, alive>>

\* the one-second pause of the success branch is over:
\* setScore(prev => prev + data.scoreChange), then setIsRunning(false)
AnalysisShown ==
  /\ ui.pc = "analysing"
  /\ ui' = [ui EXCEPT !.score = AddScore(@, ui.data.scoreChange),
                      !.isRunning = FALSE, !.pc = "idle",
                      !.data = NoResponse,
                      !.responses = Append(@, Finished(TRUE, ui.data))]
  /\ UNCHANGED <<clusterVars, now, timers, runs, call, alive>>

\* variant: the interval skips a poll while another one is outstanding
PollStart_Coalesced(c) ==
  /\ alive
  /\ call[c].pc = "idle"
  /\ \A d \in Slots : call[d].kind # "status"
  /\ runs < MaxRuns
  /\ Set(c, [IdleCall EXCEPT !.kind = "status", !.run = runs + 1,
                             !.pc = "version", !.site = "status"])
  /\ runs' = runs + 1
  /\ UNCHANGED <<clusterVars, now, timers, alive, ui>>

\* setInterval(fetchClusterStatus, 5000): the interval fires and
\* fetchClusterStatus sends its request, whatever became of the earlier ones
PollStart(c) ==
  /\ alive
  /\ call[c].pc = "idle"
  /\ runs < MaxRuns
  /\ Set(c, [IdleCall EXCEPT !.kind = "status", !.run = runs + 1,
                             !.pc = "version", !.site = "status"])
  /\ runs' = runs + 1
  /\ UNCHANGED <<clusterVars, now, timers, alive, ui>>

\* fetchClusterStatus after its await: setClusterStatus(data), or the
\* fallback of the catch block when the fetch rejects or !response.ok;
\* shown is the history of the polls whose answer was displayed
AfterPoll(u, delivered, r) ==
  LET ok == delivered /\ r.snapshot.status = 200 IN
  [u EXCEPT !.clusterStatus = IF ok THEN r.snapshot ELSE FallbackStatus,
            !.shown = Append(@, [run |-> r.run,
                                 simulated |-> ~ok \/ r.snapshot.simulated])]

\* the fetch of a poll settles
PollSettles(c) ==
  /\ call[c].kind = "status"
  /\ call[c].pc = "done"
  /\ \E delivered \in BOOLEAN : ui' = AfterPoll(ui, delivered, call[c])
  /\ Set(c, IdleCall)
  /\ UNCHANGED <<clusterVars, now, timers, runs, alive>>

----------------------------------------------------------------------------

Step(c) ==
  \/ ProbeVersion(c)
  \/ ProbeClusterInfo(c)
  \/ GetPods(c)
  \/ GetPod(c)
  \/ DeletePod(c)
  \/ GetNodes(c)
  \/ Cordon(c)
  \/ Completion(c)
  \/ HealthPods(c)
  \/ HealthNodes(c)
  \/ HealthServices(c)
  \/ Finish(c)

Next ==
  \/ \E c \in Calls : StartExec(c)
  \/ \E c \in Calls : StartPost(c)
  \/ \E c \in Calls : StartStatus(c)
  \/ \E c \in Calls : Step(c)
  \/ TimerFire
  \/ Tick

Spec == Init /\ [][Next]_vars

\* the steps of an invocation of executeChaos
StepExec(c) ==
  \/ ProbeVersion(c)
  \/ ProbeClusterInfo(c)
  \/ GetPods(c)
  \/ GetPod(c)
  \/ DeletePod(c)
  \/ GetNodes(c)
  \/ Cordon(c)
  \/ Finish(c)

\* invocations of executeChaos in a server process that can exit; the
\* clusters are those with no or one node and at most two pods
NextExec ==
  \/ \E c \in Calls : StartExec(c)
  \/ \E c \in Calls : StepExec(c)
  \/ TimerFire
  \/ Tick
  \/ ProcessExit

\* every CLI subprocess an invocation has started exits, and the
\* continuation after its await runs, while the process lives
InitExec ==
  /\ Init
  /\ nodes \in {<<>>, <<"node-1">>}
  /\ pods \subseteq {"123", "nginx-a"}

SpecExec ==
  InitExec /\ [][NextExec]_vars /\ \A c \in Calls : WF_vars(StepExec(c))

\* the two places that cordon a node, executeChaos and cordonNode, and the
\* timers they set
NextCordon ==
  \/ \E c \in Calls : StartExec(c)
  \/ \E c \in Calls : StepExec(c)
  \/ \E c \in Calls : StartCordonNode(c)
  \/ \E c \in Calls : FirstNode(c)
  \/ \E c \in Calls : CordonNode(c)
  \/ TimerFire
  \/ Tick

SpecCordon == InitExec /\ [][NextCordon]_vars

\* in addition the clock advances and the event loop runs a due callback
SpecTimers ==
  SpecExec /\ WF_vars(Tick) /\ WF_vars(TimerFire)

\* an invocation of executeChaos for one of the pod-based scenarios
StartPodExec(c) ==
  /\ StartExec(c)
  /\ call'[c].scenarioId \in PodScenarios

\* the steps of an invocation for a pod-based scenario
StepPod(c) ==
  \/ ProbeVersion(c)
  \/ ProbeClusterInfo(c)
  \/ GetPods(c)
  \/ GetPod(c)
  \/ DeletePod(c)
  \/ Finish(c)

\* overlapping invocations of the pod-based scenarios: every slot of the
\* server runs its own, interleaved step by step with the others
NextRace ==
  \/ \E c \in Slots : StartPodExec(c)
  \/ \E c \in Slots : StepPod(c)

\* the pod-based scenarios never read the nodes: one node list is enough
InitRace == Init /\ nodes = <<"node-1">>

SpecRace == InitRace /\ [][NextRace]_vars

\* the steps of a request to GET /cluster/status
StepStatus(c) ==
  \/ ProbeVersion(c)
  \/ ProbeClusterInfo(c)
  \/ HealthPods(c)
  \/ HealthNodes(c)
  \/ HealthServices(c)

\* the status polls of one dashboard, each in a slot of its own
NextPoll ==
  \/ \E c \in Slots : PollStart(c)
  \/ \E c \in Slots : StepStatus(c)
  \/ \E c \in Slots : PollSettles(c)

\* a poll never changes the cluster: one cluster is enough
InitPoll ==
  /\ Init
  /\ nodes = <<"node-1">>
  /\ pods = {"nginx-a"}
  /\ posixShell

SpecPoll == InitPoll /\ [][NextPoll]_vars

\* the steps of a request to POST /chaos/run
StepPost(c) ==
  \/ ProbeVersion(c)
  \/ ProbeClusterInfo(c)
  \/ GetPods(c)
  \/ GetPod(c)
  \/ DeletePod(c)
  \/ GetNodes(c)
  \/ Cordon(c)
  \/ Completion(c)

\* the chaos runs of one dashboard session and the server that answers them
NextUI ==
  \/ SelectScenario
  \/ \E c \in Calls : RunChaosScenario(c)
  \/ \E c \in Calls : FetchSettles(c)
  \/ AnalysisShown
  \/ \E c \in Calls : StepPost(c)
  \/ TimerFire
  \/ Tick

\* the score depends on the cluster only through the success of the runs:
\* one node and up to two pods give every outcome
InitUI ==
  /\ Init
  /\ nodes = <<"node-1">>
  /\ pods \subseteq {"nginx-a", "nginx-b"}
  /\ posixShell

SpecUI == InitUI /\ [][NextUI]_vars

\* one dashboard session in front of a server that can serve requests side
\* by side; the session reads neither the clock nor the uncordon timers, so
\* it is followed within one instant
NextSession ==
  \/ SelectScenario
  \/ \E c \in Slots : RunChaosScenario(c)
  \/ \E c \in Slots : FetchSettles(c)
  \/ AnalysisShown
  \/ \E c \in Slots : StepPost(c)

InitSession ==
  /\ Init
  /\ nodes = <<"node-1">>
  /\ pods = {"nginx-a"}
  /\ posixShell

\* every subprocess and the LLM request of a run settle, the fetch of the
\* dashboard settles, and the one-second pause ends
SpecSession ==
  /\ InitSession /\ [][NextSession]_vars
  /\ \A c \in Slots : WF_vars(StepPost(c)) /\ WF_vars(FetchSettles(c))
  /\ WF_vars(AnalysisShown)


----------------------------------------------------------------------------
(* Vocabulary of the properties *)

Entries(r, cmd) == {i \in 1..Len(r.cmds) : r.cmds[i].cmd = cmd}

Failed(r, cmd) == \E i \in Entries(r, cmd) : r.cmds[i].out = "error"

Exited0(r, cmd) == {i \in Entries(r, cmd) : r.cmds[i].out # "error"}

\* every subprocess the invocation awaited exited 0 with the output asked for
CliWorked(r) ==
  \A i \in 1..Len(r.cmds) : r.cmds[i].out \in {"ok", "object"}

\* the invocation ran no command that changes the cluster
NoMutation(r) ==
  /\ Entries(r, "delete pod") = {}
  /\ Entries(r, "cordon") = {}
  /\ \A t \in timers : t.run # r.run

\* the invocations of executeChaos that have returned
ReturnedCalls == {c \in Calls : call[c].returned}

PlaceholderCounts(s) ==
  /\ s.simulated
  /\ s.pods = 3 /\ s.totalPods = 3
  /\ s.nodes = 1 /\ s.totalNodes = 1
  /\ s.services = 2

----------------------------------------------------------------------------
(* C1: with the cluster reachable, so that every subprocess of the         *)
(* invocation exits 0 with the expected output, a pod scenario deletes     *)
(* exactly one pod labelled app=nginx and returns success=true when such a *)
(* pod exists, and deletes nothing and returns success=false when none     *)
(* exists.                                                                 *)
C1_DeletesExactlyOnePod ==
  \A c \in ReturnedCalls :
    LET r == call[c] IN
    (r.scenarioId \in PodScenarios /\ r.k8sAvailable /\ CliWorked(r)) =>
      IF r.podsSeen # {}
      THEN /\ r.result.success
           /\ Cardinality(Exited0(r, "delete pod")) = 1
           /\ \A i \in Exited0(r, "delete pod") : r.cmds[i].arg \in r.podsSeen
      ELSE /\ ~r.result.success
           /\ Entries(r, "delete pod") = {}

----------------------------------------------------------------------------
(* C2: a successful disk-pressure invocation cordons exactly the first of  *)
(* the listed nodes and schedules one uncordon of that node, which is not  *)
(* attempted before 30 seconds have passed since the cordon and has been   *)
(* attempted exactly once when more than 30 seconds have passed.           *)
C2_CordonFirstNodeUncordonAfter30s ==
  /\ \A c \in ReturnedCalls :
       LET r == call[c] IN
       (r.scenarioId = "disk-pressure" /\ r.result.success) =>
         /\ Cardinality(Entries(r, "cordon")) = 1
         /\ \A i \in Entries(r, "cordon") :
              r.cmds[i].out = "ok" /\ r.cmds[i].arg = nodes[1]
         /\ Cardinality({t \in timers : t.run = r.run}) = 1
         /\ \A t \in timers : t.run = r.run => t.nodeName = nodes[1]
  /\ \A t \in timers :
       /\ t.state # "pending" => t.firedAt >= t.setAt + 30000
       /\ now > t.setAt + 30000 => t.state # "pending"
       /\ \A u \in timers : u.run = t.run => u = t

C2_Witness ==
  \E t \in timers :
    /\ t.state # "pending"
    /\ now > t.setAt + 30000
    /\ Len(nodes) = 2

----------------------------------------------------------------------------
(* C3: for every scenario identifier and every outcome of the CLI          *)
(* subprocesses, executeChaos does not throw, and the result it returns    *)
(* has a boolean success and a non-empty message.                          *)
C3_NeverThrowsNonEmptyMessage ==
  \A c \in Calls :
    LET r == call[c] IN
    /\ ~r.threw
    /\ (r.kind = "exec" /\ r.pc = "done") => r.returned
    /\ r.returned => /\ r.result.success \in BOOLEAN
                     /\ NonEmpty(r.result.message)

C3_Witness ==
  \E c \in ReturnedCalls :
    /\ call[c].kind = "exec"
    /\ call[c].scenarioId = "cpu-spike"
    /\ \E i \in Entries(call[c], "get pod") : call[c].cmds[i].out = "null"

----------------------------------------------------------------------------
(* C4: when the availability probe returns false, GET /cluster/status      *)
(* answers simulated=true with the placeholder counts, and executeChaos    *)
(* returns success=false with a message starting with "Simulated:" for     *)
(* every scenario, without a pod-delete or cordon command.                 *)
C4_UnreachableIsSimulated ==
  \A c \in Calls :
    LET r == call[c] IN
    /\ (r.kind = "status" /\ r.pc = "done" /\ ~r.k8sAvailable) =>
         PlaceholderCounts(r.snapshot)
    /\ (r.returned /\ ~r.k8sAvailable) =>
         /\ ~r.result.success
         /\ r.result.message[1] = "Simulated: "
         /\ NoMutation(r)

C4_Witness ==
  \E c \in ReturnedCalls :
    /\ ~call[c].k8sAvailable
    /\ call[c].scenarioId = "disk-pressure"
    /\ Failed(call[c], "cluster-info")

----------------------------------------------------------------------------
(* C5: GET /cluster/status answers with status 200 on every path; when the *)
(* probe is false, a query of getClusterHealth fails or reading its output *)
(* throws, the answer is the placeholder snapshot with simulated=true.     *)
StatusDegraded(r) ==
  \/ ~r.k8sAvailable
  \/ \E i \in 1..Len(r.cmds) :
       /\ r.cmds[i].cmd \in {"get pods -n default", "get nodes", "get services"}
       /\ r.cmds[i].out \in {"error", "null", "malformed"}

C5_StatusAlways200 ==
  \A c \in Calls :
    LET r == call[c] IN
    (r.kind = "status" /\ r.pc = "done") =>
      /\ r.snapshot.status = 200
      /\ StatusDegraded(r) => PlaceholderCounts(r.snapshot)

C5_Witness ==
  \E c \in Calls :
    /\ call[c].kind = "status"
    /\ call[c].pc = "done"
    /\ call[c].k8sAvailable
    /\ Failed(call[c], "get services")

----------------------------------------------------------------------------
(* C6: for every valid scenario identifier the scoreChange of a 200        *)
(* response of POST /chaos/run is the value of the static table, whether   *)
(* the action result has success=true or success=false.                    *)
C6_ScoreFromTable ==
  \A c \in Calls :
    LET r == call[c] IN
    (r.kind = "post" /\ r.response.status = 200 /\ r.scenarioId \in Scenarios) =>
      r.response.scoreChange = <<scoreMap[r.scenarioId]>>

C6_Witness ==
  \E c \in Calls :
    /\ call[c].kind = "post"
    /\ call[c].response.status = 200
    /\ call[c].scenarioId = "network-delay"
    /\ ~call[c].response.success
    /\ ~call[c].response.realChaos

----------------------------------------------------------------------------
(* C7: a scenario identifier outside the five never causes a cluster       *)
(* mutation: POST /chaos/run answers 400 before the availability probe,    *)
(* any CLI command or the LLM request, and executeChaos with such an       *)
(* identifier returns success=false without a delete or cordon command.    *)
C7_UnknownScenarioRejected ==
  \A c \in Calls :
    LET r == call[c] IN
    (r.kind \in {"post", "exec"} /\ r.scenarioId \notin Scenarios) =>
      /\ r.kind = "post" =>
           /\ r.pc = "done"
           /\ r.response.status = 400
           /\ r.cmds = <<>>
      /\ r.returned => ~r.result.success
      /\ NoMutation(r)

----------------------------------------------------------------------------
(* C8 as stated: the four pod scenarios have the identical effect, the one *)
(* of pod-delete: once a pod is selected, one delete command is run for    *)
(* it, and success is the outcome of that command.                         *)
SelectedPodEffect(r) ==
  /\ Cardinality(Entries(r, "delete pod")) = 1
  /\ \A i \in Entries(r, "delete pod") :
       /\ r.cmds[i].arg = r.podName
       /\ r.result.success <=> r.cmds[i].out = "ok"

NoPodEffect(r) ==
  /\ Entries(r, "delete pod") = {}
  /\ ~r.result.success

C8_PodScenariosIdentical ==
  \A c \in ReturnedCalls :
    LET r == call[c] IN
    (r.scenarioId \in PodScenarios /\ r.k8sAvailable) =>
      IF r.podName # NULL THEN SelectedPodEffect(r) ELSE NoPodEffect(r)

\* the extra read of cpu-spike and memory-leak threw
PodReadThrew(r) ==
  \E i \in Entries(r, "get pod") : r.cmds[i].out \in {"error", "null"}

(* C8 amended: pod-delete and network-delay have the identical effect, and *)
(* cpu-spike and memory-leak have that effect too unless their extra read  *)
(* of the selected pod throws; then they delete nothing and return         *)
(* success=false.                                                          *)
C8_PodScenariosIdenticalUnlessReadThrows ==
  \A c \in ReturnedCalls :
    LET r == call[c] IN
    (r.scenarioId \in PodScenarios /\ r.k8sAvailable) =>
      /\ PodReadThrew(r) => r.scenarioId \in {"cpu-spike", "memory-leak"}
      /\ IF r.podName # NULL /\ ~PodReadThrew(r)
         THEN SelectedPodEffect(r)
         ELSE NoPodEffect(r)

C8_Witness ==
  \E c \in ReturnedCalls :
    /\ call[c].scenarioId = "memory-leak"
    /\ call[c].result.success
    /\ call[c].podName = "nginx-b"
    /\ pods = {"nginx-a"}

----------------------------------------------------------------------------
----------------------------------------------------------------------------
(* C10: when no pod matches app=nginx for a pod scenario, or the node list *)
(* is empty for disk-pressure, executeChaos returns success=false with a   *)
(* guidance message, runs no delete, cordon or uncordon command and        *)
(* schedules no timer.                                                     *)
GuidanceMessages ==
  {<<"No nginx pods found. Deploy with: kubectl create deployment nginx --image=nginx --replicas=3">>,
   <<"No nginx pods found">>,
   <<"No nodes found">>}

TargetAbsent(r) ==
  \/ /\ r.scenarioId \in PodScenarios
     /\ Exited0(r, "get pods") # {}
     /\ r.podsSeen = {}
  \/ /\ r.scenarioId = "disk-pressure"
     /\ \E i \in Entries(r, "get nodes") : r.cmds[i].out = "object"
     /\ nodes = <<>>

C10_TargetAbsent ==
  \A c \in ReturnedCalls :
    LET r == call[c] IN
    TargetAbsent(r) =>
      /\ ~r.result.success
      /\ r.result.message \in GuidanceMessages
      /\ NoMutation(r)

C10_Witness ==
  \E c \in ReturnedCalls :
    /\ TargetAbsent(call[c])
    /\ call[c].scenarioId = "disk-pressure"

----------------------------------------------------------------------------
(* C11: on the real query path GET /cluster/status reports healthy = true  *)
(* exactly when totalPods is 0 or the number of pods in phase Running      *)
(* equals totalPods.                                                       *)
LiveStatusCalls ==
  {c \in Calls : /\ call[c].kind = "status"
                 /\ call[c].pc = "done"
                 /\ ~call[c].snapshot.simulated}

\* the pods the pod query of the invocation reported in phase Running
RunningSeen(r) ==
  UNION {r.cmds[i].arg : i \in Entries(r, "get pods -n default")}

C11_HealthyIffAllRunning ==
  \A c \in LiveStatusCalls :
    LET s == call[c].snapshot
        running == Cardinality(RunningSeen(call[c])) IN
    /\ s.pods = running
    /\ s.healthy <=> (s.totalPods = 0 \/ running = s.totalPods)

C11_Witness ==
  \E c \in LiveStatusCalls :
    /\ call[c].snapshot.totalPods = 0
    /\ call[c].snapshot.healthy
    /\ pods = {}

----------------------------------------------------------------------------
(* C12: isKubernetesAvailable returns true only if both the client-version *)
(* query and the cluster-info query succeed; an error of either is         *)
(* converted to false and never thrown, and the second query is not run    *)
(* when the first fails.                                                   *)

\* the value of the probe whose version query is entry i of the record
ProbeValue(r, i) ==
  /\ r.cmds[i].out = "ok"
  /\ i + 1 <= Len(r.cmds)
  /\ r.cmds[i + 1].cmd = "cluster-info"
  /\ r.cmds[i + 1].out = "ok"

FirstProbeDone(r) ==
  /\ Entries(r, "version") # {}
  /\ r.site = "isReal" \/ r.pc \notin {"version", "cluster-info"}

SecondProbeDone(r) ==
  r.kind = "post" /\ r.site = "isReal" /\ r.pc \in {"llm", "done"}

LastVersion(r) ==
  CHOOSE i \in Entries(r, "version") : \A j \in Entries(r, "version") : j <= i

C12_ProbeNeedsBothQueries ==
  \A c \in Calls :
    LET r == call[c] IN
    /\ \A i \in Entries(r, "cluster-info") :
         i > 1 /\ r.cmds[i - 1].cmd = "version" /\ r.cmds[i - 1].out = "ok"
    /\ FirstProbeDone(r) => (r.k8sAvailable <=> ProbeValue(r, 1))
    /\ SecondProbeDone(r) => (r.isReal <=> ProbeValue(r, LastVersion(r)))
    /\ ~r.threw
    /\ r.response.status = 500 => Failed(r, "llm")

C12_Witness ==
  \E c \in Calls :
    /\ SecondProbeDone(call[c])
    /\ call[c].k8sAvailable
    /\ ~call[c].isReal
    /\ call[c].cmds[LastVersion(call[c])].out = "error"

----------------------------------------------------------------------------
(* C13: when the LLM request of POST /chaos/run fails, the response has    *)
(* status 500 with the fields error, details and analysis, and the request *)
(* is not retried; when the completion carries no content, the response is *)
(* 200 with analysis "Analysis unavailable".                               *)
PostDone == {c \in Calls : call[c].kind = "post" /\ call[c].pc = "done"}

C13_NarrationFailure ==
  \A c \in Calls :
    LET r == call[c] IN
    /\ Cardinality(Entries(r, "llm")) <= 1
    /\ c \in PostDone =>
         /\ Failed(r, "llm") =>
              /\ r.response.status = 500
              /\ NonEmpty(r.response.error)
              /\ NonEmpty(r.response.details)
              /\ NonEmpty(r.response.analysis)
         /\ (\E i \in Entries(r, "llm") : r.cmds[i].out = "empty") =>
              /\ r.response.status = 200
              /\ r.response.analysis = <<"Analysis unavailable">>

C13_Witness ==
  \E c \in PostDone :
    /\ Failed(call[c], "llm")
    /\ call[c].result.success
    /\ call[c].scenarioId = "disk-pressure"

----------------------------------------------------------------------------
(* C14: in every 200 response of POST /chaos/run, success is the success   *)
(* of the action result, and executionResult and executionDetails are its  *)
(* message and details; a pod-delete run that deleted a pod answers        *)
(* success=true with scoreChange=100.                                      *)
C14_ResponseMirrorsResult ==
  \A c \in Calls :
    LET r == call[c] IN
    (r.kind = "post" /\ r.response.status = 200) =>
      /\ r.returned
      /\ r.response.success = r.result.success
      /\ r.response.executionResult = r.result.message
      /\ r.response.executionDetails = r.result.details
      /\ (r.scenarioId = "pod-delete" /\ Exited0(r, "delete pod") # {}) =>
           /\ r.response.success
           /\ r.response.scoreChange = <<100>>
      /\ r.response.success =>
           Exited0(r, "delete pod") # {} \/ Exited0(r, "cordon") # {}

C14_Witness ==
  \E c \in Calls :
    /\ call[c].kind = "post"
    /\ call[c].response.status = 200
    /\ call[c].scenarioId = "pod-delete"
    /\ Exited0(call[c], "delete pod") # {}
    /\ call[c].response.executionResult = <<"Deleted pod: ", "nginx-a">>

----------------------------------------------------------------------------
(* C15: for each of the five scenarios the scoreChange of a 200 response   *)
(* of POST /chaos/run is the point value the README documents for the      *)
(* scenario and the dashboard shows on its card: pod-delete 100, cpu-spike *)
(* 150, memory-leak 150, network-delay 200, disk-pressure 200.             *)
DocumentedPoints ==
  [sid \in Scenarios |->
     CASE sid = "pod-delete" -> 100
       [] sid = "cpu-spike" -> 150
       [] sid = "memory-leak" -> 150
       [] sid = "network-delay" -> 200
       [] sid = "disk-pressure" -> 200]

C15_ScoreMatchesReadmeAndCards ==
  /\ CardIds = Scenarios
  /\ \A sid \in Scenarios :
       /\ ReadmePoints[sid] = DocumentedPoints[sid]
       /\ CardScore(sid) = DocumentedPoints[sid]
  /\ \A c \in Calls :
       LET r == call[c] IN
       (r.kind = "post" /\ r.response.status = 200 /\ r.scenarioId \in Scenarios) =>
         /\ r.response.scoreChange = <<ReadmePoints[r.scenarioId]>>
         /\ r.response.scoreChange = <<CardScore(r.scenarioId)>>

C15_Witness ==
  \E c \in Calls :
    /\ call[c].kind = "post"
    /\ call[c].response.status = 200
    /\ call[c].scenarioId = "cpu-spike"
    /\ call[c].response.scoreChange = <<150>>
    /\ CardScore("cpu-spike") = 150

----------------------------------------------------------------------------
(* C19: for a valid scenario identifier POST /chaos/run requests the LLM   *)
(* completion exactly once, and only after executeChaos has returned:      *)
(* every delete or cordon command of the request precedes the narration    *)
(* request, and the step in which the narration settles, failed or not,    *)
(* leaves the cluster and the uncordon timers as they were.                *)
Mutations(r) == Entries(r, "delete pod") \cup Entries(r, "cordon")

NarrationAfterExecution(r) ==
  /\ Cardinality(Entries(r, "llm")) <= 1
  /\ r.pc = "done" => Cardinality(Entries(r, "llm")) = 1
  /\ \A i \in Entries(r, "llm") :
       /\ r.returned
       /\ i = Len(r.cmds)
       /\ \A j \in Mutations(r) : j < i
  /\ (r.response.status = 500 /\ Exited0(r, "delete pod") # {}) =>
       r.podName \notin pods

NarrationSettles(c) ==
  /\ Len(call'[c].cmds) = Len(call[c].cmds) + 1
  /\ call'[c].cmds[Len(call'[c].cmds)].cmd = "llm"

C19_NarrationOnceAfterExecution ==
  /\ [](\A c \in Calls :
          (call[c].kind = "post" /\ call[c].scenarioId \in Scenarios) =>
            NarrationAfterExecution(call[c]))
  /\ [][\A c \in Calls :
          NarrationSettles(c) => UNCHANGED <<clusterVars, timers>>]_vars

C19_Witness ==
  \E c \in Calls :
    /\ call[c].kind = "post"
    /\ call[c].scenarioId = "pod-delete"
    /\ call[c].response.status = 500
    /\ Failed(call[c], "llm")
    /\ Exited0(call[c], "delete pod") # {}
    /\ call[c].podName \notin pods

----------------------------------------------------------------------------
(* C20: the session score of the dashboard starts at 0, never decreases,   *)
(* and after any sequence of runs is the sum of the scoreChange values of  *)
(* exactly the runs whose response had success=true; a run whose response  *)
(* has success=false, or that fails, leaves the score unchanged.           *)
RECURSIVE SuccessPoints(_)
SuccessPoints(h) ==
  IF h = <<>> THEN 0
  ELSE LET last == h[Len(h)] IN
       SuccessPoints(SubSeq(h, 1, Len(h) - 1))
         + (IF last.success THEN last.scoreChange[1] ELSE 0)

\* a run ends in this step without success
RunEndsWithoutSuccess ==
  /\ Len(ui'.responses) = Len(ui.responses) + 1
  /\ ~ui'.responses[Len(ui'.responses)].success

C20_ScoreIsSumOfSuccesses ==
  /\ ui.score = 0
  /\ [](ui.score = SuccessPoints(ui.responses))
  /\ [][ui'.score >= ui.score]_vars
  /\ [][RunEndsWithoutSuccess => ui'.score = ui.score]_vars

C20_Witness ==
  /\ Len(ui.responses) = 2
  /\ ui.responses[1].success
  /\ ui.responses[1].scoreChange = <<100>>
  /\ ui.responses[2].delivered
  /\ ~ui.responses[2].success
  /\ ui.responses[2].scoreChange = <<200>>
  /\ ui.score = 100

----------------------------------------------------------------------------
(* C17: while the server process lives and every CLI subprocess an         *)
(* invocation starts eventually exits, every invocation of executeChaos    *)
(* eventually returns a result, for each of the five scenario identifiers; *)
(* it does not wait for the uncordon timer: in the step in which it        *)
(* returns, the timer it has scheduled is still pending and not yet due.   *)
Invoked(c, sid) ==
  /\ call[c].kind = "exec"
  /\ call[c].pc \notin {"idle", "done"}
  /\ call[c].scenarioId = sid

ReturnsBeforeTimer(c) ==
  (~call[c].returned /\ call'[c].returned) =>
    \A t \in timers' :
      t.run = call'[c].run => (t.state = "pending" /\ now' < t.due)

C17_EveryInvocationReturns ==
  /\ \A c \in Calls : \A sid \in Scenarios :
       Invoked(c, sid) ~> (call[c].returned \/ ~alive)
  /\ [][\A c \in Calls : ReturnsBeforeTimer(c)]_vars

C17_Witness ==
  \E c \in Calls :
    /\ alive
    /\ call[c].kind = "exec"
    /\ call[c].scenarioId = "disk-pressure"
    /\ call[c].returned
    /\ call[c].result.success
    /\ \E t \in Pending : t.run = call[c].run /\ now < t.due

----------------------------------------------------------------------------
(* C18: if the server process exits after a successful disk-pressure       *)
(* cordon and inside the 30 seconds before the timer of that invocation    *)
(* is due, no uncordon is issued for the node from the cordon on and the   *)
(* node stays cordoned; if the process keeps running, the uncordon attempt *)
(* of the invocation is eventually issued.                                 *)
\* the timers the exit took away before they were due (the clock of the
\* model stops at the exit)
Lost == {t \in timers : t.state = "lost" /\ now < t.due}

Fired == {t \in timers : t.state \in {"uncordoned", "failed"}}

StrandedCordon(t) ==
  /\ t.nodeName \in unschedulable
  /\ \A u \in Fired : u.nodeName = t.nodeName => u.firedAt < t.setAt

C18_ExitStrandsCordon ==
  /\ [](\A t \in Lost : StrandedCordon(t))
  /\ [][~alive => UNCHANGED <<clusterVars, timers>>]_vars
  /\ \A run \in 1..MaxRuns :
       (\E t \in Pending : t.run = run)
         ~> (~alive \/ \E t \in Fired : t.run = run)

----------------------------------------------------------------------------
(* C16: overlapping executeChaos invocations of a pod-based scenario are   *)
(* not mutually exclusive: while one invocation holds a pod it has         *)
(* selected and not yet deleted, another invocation that lists the pods    *)
(* can select the same pod, and an invocation that holds the last          *)
(* remaining app=nginx pod can delete it.                                  *)
Holds(c, p) ==
  /\ call[c].scenarioId \in PodScenarios
  /\ call[c].pc \in {"get-pod", "delete-pod"}
  /\ call[c].podName = p
  /\ p \in pods

\* the listing names p in a form getRandomPod can return
Listed(p) ==
  p \in pods /\ (Cardinality(pods) > 1 \/ p \notin JsonLiterals \/ ~posixShell)

Selects(d, p) == GetPods(d) /\ call'[d].podName = p

DeletesLast(c) == DeletePod(c) /\ pods' = {}

C16_NoMutualExclusion ==
  \A c \in Slots : \A d \in Slots \ {c} : \A p \in PodNames :
    /\ (Holds(c, p) /\ Listed(p) /\ call[d].pc = "get-pods")
         => ENABLED Selects(d, p)
    /\ (Holds(c, p) /\ call[c].pc = "delete-pod" /\ pods = {p})
         => ENABLED DeletesLast(c)

C16_Witness ==
  /\ pods = {"nginx-a"}
  /\ Holds("r1", "nginx-a") /\ call["r1"].pc = "delete-pod"
  /\ Holds("r2", "nginx-a") /\ call["r2"].pc = "delete-pod"
  /\ call["r1"].scenarioId = "pod-delete"
  /\ call["r2"].scenarioId = "pod-delete"

----------------------------------------------------------------------------
(* C21: the status polls of the dashboard are not coalesced: a poll can be *)
(* issued while an earlier poll is outstanding, and the answer of a poll   *)
(* is displayed whenever it arrives, also after the answer of a later poll *)
(* has been displayed.                                                     *)
Outstanding(c) == call[c].kind = "status"

Displays(c) ==
  /\ PollSettles(c)
  /\ ui'.clusterStatus = call[c].snapshot
  /\ ui'.shown = Append(ui.shown, [run |-> call[c].run,
                                   simulated |-> call[c].snapshot.simulated])

C21_PollsNotCoalesced ==
  \A c \in Slots : \A d \in Slots \ {c} :
    /\ (Outstanding(c) /\ call[d].pc = "idle" /\ runs < MaxRuns)
         => ENABLED PollStart(d)
    /\ (Outstanding(c) /\ call[c].pc = "done") => ENABLED Displays(c)

C21_Witness ==
  /\ Len(ui.shown) = 2
  /\ ui.shown[1].run = 2 /\ ui.shown[1].simulated
  /\ ui.shown[2].run = 1 /\ ~ui.shown[2].simulated
  /\ ~ui.clusterStatus.simulated
  /\ ui.clusterStatus.totalPods = 1

----------------------------------------------------------------------------
(* C22: the availability probe and GET /cluster/status never change the    *)
(* cluster: every step of a probe and every step of a status request       *)
(* leaves the pod set, the node list, the schedulable flag of every node   *)
(* and the uncordon timers as they were.                                   *)
ReadOnlyStep(c) ==
  /\ call'[c] # call[c]
  /\ \/ call[c].kind = "status"
     \/ call'[c].kind = "status"
     \/ call[c].pc \in {"version", "cluster-info"}

C22_ProbeAndStatusReadOnly ==
  [][\A c \in Calls :
       ReadOnlyStep(c) => UNCHANGED <<pods, nodes, unschedulable, timers>>]_vars

C22_Witness ==
  \E c \in Calls :
    /\ call[c].kind = "status"
    /\ call[c].pc = "done"
    /\ ~call[c].snapshot.simulated
    /\ call[c].snapshot.totalNodes = 2
    /\ unschedulable = {"node-2"}
    /\ pods = {"nginx-a"}

----------------------------------------------------------------------------
(* C23: in every 200 response of POST /chaos/run, success=true implies     *)
(* realChaos=true, also when the second availability probe, run after      *)
(* executeChaos has returned, sees another reachability than the first.    *)
C23_SuccessImpliesRealChaos ==
  \A c \in Calls :
    LET r == call[c] IN
    (r.kind = "post" /\ r.response.status = 200 /\ r.response.success) =>
      r.response.realChaos

----------------------------------------------------------------------------
(* C24: after every successful disk-pressure invocation the node stays     *)
(* cordoned for at least 30 seconds, also when several such invocations    *)
(* overlap: no timer of an earlier invocation uncordons the node inside    *)
(* the 30-second window of a later one.                                    *)
InWindow(t) == t.setAt <= now /\ now < t.setAt + UncordonDelayMs

C24_CordonedFor30s ==
  \A t \in timers :
    /\ InWindow(t) => t.nodeName \in unschedulable
    /\ \A u \in timers :
         (u.run < t.run /\ u.nodeName = t.nodeName /\ u.state = "uncordoned")
           => ~(t.setAt < u.firedAt /\ u.firedAt < t.setAt + UncordonDelayMs)

----------------------------------------------------------------------------
(* C25: an uncordon timer is scheduled only after a cordon command         *)
(* succeeded, in executeChaos and in cordonNode: a step sets at most one   *)
(* timer, and only when it records a cordon command of that invocation     *)
(* that exited 0, for the node of that command; so the uncordon attempts   *)
(* issued or pending never outnumber the successful cordon commands, and   *)
(* a failed cordon sets none.                                              *)
TimersOf(r) == {t \in timers : t.run = r.run}

\* the timers this step has set
NewTimers == {t \in timers' : \A u \in timers : u.run # t.run}

\* this step records a cordon command of invocation c
CordonExits(c, out) ==
  /\ Len(call'[c].cmds) = Len(call[c].cmds) + 1
  /\ call'[c].cmds[Len(call'[c].cmds)].cmd = "cordon"
  /\ call'[c].cmds[Len(call'[c].cmds)].out = out

C25_TimerOnlyAfterCordon ==
  /\ [](/\ Cardinality(timers) <= runs
        /\ \A c \in Calls :
             call[c].run > 0 =>
               Cardinality(TimersOf(call[c])) =
                 Cardinality(Exited0(call[c], "cordon")))
  /\ [][/\ Cardinality(NewTimers) <= 1
        /\ \A t \in NewTimers :
             \E c \in Calls :
               /\ CordonExits(c, "ok")
               /\ call'[c].run = t.run
               /\ call'[c].cmds[Len(call'[c].cmds)].arg = t.nodeName
               /\ t.state = "pending" /\ t.setAt = now
        /\ \A c \in Calls : CordonExits(c, "error") => NewTimers = {}]_vars

C25_Witness ==
  \E c \in Calls :
    /\ call[c].kind = "cordonNode"
    /\ call[c].threw
    /\ Failed(call[c], "cordon")
    /\ TimersOf(call[c]) = {}
    /\ \E t \in timers : t.due = t.setAt + UncordonDelayMs

----------------------------------------------------------------------------
(* C26: in one dashboard session at most one chaos run is in flight at any *)
(* time: a run starts only while isRunning is false and a scenario is      *)
(* selected; the selected scenario does not change during a run; and every *)
(* started run eventually sets isRunning back to false, whether the        *)
(* request succeeds, returns an error status or throws.                    *)
InFlight == {c \in Slots : call[c].kind = "post"}

\* a run starts in this step
RunStarts == ui'.run # ui.run

C26_OneRunAtATime ==
  /\ [](/\ Cardinality(InFlight) <= 1
        /\ InFlight # {} => ui.isRunning
        /\ \A c \in InFlight :
             call[c].run = ui.run /\ call[c].scenarioId = ui.selectedScenario)
  /\ [][RunStarts => (~ui.isRunning /\ ui.selectedScenario # NULL
                      /\ ui'.isRunning)]_vars
  /\ [][ui.isRunning => ui'.selectedScenario = ui.selectedScenario]_vars
  /\ ui.isRunning ~> ~ui.isRunning

C26_Witness ==
  /\ ~ui.isRunning
  /\ Len(ui.responses) = 2
  /\ ~ui.responses[1].delivered
  /\ ui.responses[2].delivered
  /\ ui.responses[2].scoreChange = <<>>
  /\ pods = {}

----------------------------------------------------------------------------
(* C27: every snapshot returned by GET /cluster/status, real or            *)
(* placeholder, satisfies 0 <= pods <= totalPods, 0 <= nodes <= totalNodes *)
(* and services >= 0, and has simulated=false exactly when the counts come *)
(* from a completed live query.                                            *)
StatusAnswers == {c \in Calls : call[c].kind = "status" /\ call[c].pc = "done"}

\* the three queries of getClusterHealth were run and none of them failed
\* or gave an output the code could not read
LiveQueryCompleted(r) ==
  /\ r.k8sAvailable
  /\ \A cmd \in {"get pods -n default", "get nodes", "get services"} :
       /\ Entries(r, cmd) # {}
       /\ \A i \in Entries(r, cmd) :
            r.cmds[i].out \notin {"error", "null", "malformed"}

\* the nodes the node query of the invocation reported Ready
ReadySeen(r) == UNION {r.cmds[i].arg : i \in Entries(r, "get nodes")}

C27_SnapshotWellFormed ==
  \A c \in StatusAnswers :
    LET s == call[c].snapshot IN
    /\ 0 <= s.pods /\ s.pods <= s.totalPods
    /\ 0 <= s.nodes /\ s.nodes <= s.totalNodes
    /\ s.services >= 0
    /\ ~s.simulated <=> LiveQueryCompleted(call[c])
    /\ s.simulated => PlaceholderCounts(s)
    /\ ~s.simulated =>
         /\ s.pods = Cardinality(RunningSeen(call[c]))
         /\ s.totalPods \in {0, Cardinality(pods)}
         /\ s.nodes = Cardinality(ReadySeen(call[c]))
         /\ s.totalNodes \in {0, Len(nodes)}
         /\ s.services <= MaxServices

C27_Witness ==
  \E c \in StatusAnswers :
    LET s == call[c].snapshot IN
    /\ ~s.simulated
    /\ s.pods = 1 /\ s.totalPods = 2
    /\ s.nodes = 1 /\ s.totalNodes = 2
    /\ s.services = MaxServices
    /\ ~s.healthy

----------------------------------------------------------------------------
(* C28: getRandomPod never throws: it returns null when the CLI call fails *)
(* or the returned name list is empty, and otherwise returns a name that   *)
(* is an element of the whitespace-delimited name list the CLI returned.   *)
C28_GetRandomPodTotal ==
  \A c \in Calls :
    LET r == call[c] IN
    Entries(r, "get pods") # {} =>
      IF Exited0(r, "get pods") = {} \/ r.podsSeen = {}
      THEN r.podName = NULL
      ELSE r.podName \in r.podsSeen

====
